---- MODULE Spec2Model ----
(***************************************************************************)
(* Buffered graphics mode of the sh1106 driver (src/src/mode/graphics.rs). *)
(* State: the frame buffer, the display properties the mode consults       *)
(* (size, rotation), the build it runs on, and a record of the last call   *)
(* with the calls it made on the transport, the reset pin and the delay.   *)
(***************************************************************************)
EXTENDS Integers, Sequences, FiniteSets, TLC

\* ------------------------------------------------------------------ bounds
\* Calls made on one GraphicsMode instance in a run.
MaxOps == 3

\* --------------------------------------------------------------- constants
BUFFER_SIZE == (132 * 64) \div 8

Rotations == {"Rotate0", "Rotate90", "Rotate180", "Rotate270"}

\* DisplaySize as the properties collaborator reports it: unrotated width and
\* height (u8) and the controller's column offset.
DisplaySizes ==
    { [width |-> 128, height |-> 32, offset |-> 2],
      [width |-> 128, height |-> 64, offset |-> 2],
      [width |-> 132, height |-> 64, offset |-> 0] }

\* get_size().dimensions(): width and height before rotation
dimensions(sz) == <<sz.width, sz.height>>

\* get_size().column_offset()
column_offset(sz) == sz.offset

\* The builds of the crate: width of usize on the target and whether integer
\* overflow panics (overflow-checks on) or wraps (off). The usize products of
\* set_pixel cannot overflow 64 bits, so one 64-bit build stands for both.
Targets ==
    { [usizeBits |-> 32, overflowChecks |-> FALSE],
      [usizeBits |-> 32, overflowChecks |-> TRUE],
      [usizeBits |-> 64, overflowChecks |-> FALSE] }

TransportErrors == {"Nack", "Timeout"}
PinErrors == {"PinFault", "PinBusy"}

\* ------------------------------------------------------------------ state
\* size, rotation: what properties.get_size() and get_rotation() answer.
\* target: the build. buffer: self.buffer. call: the last call made on the
\* mode, what it returned and the calls it made on its collaborators, in
\* order. pre: buffer, rotation and size as that call found them. nOps: the
\* calls made so far.
VARIABLES size, target, rotation, buffer, call, pre, nOps

vars == <<size, target, rotation, buffer, call, pre, nOps>>

Snapshot == [buffer |-> buffer, rotation |-> rotation, size |-> size]

\* ------------------------------------------------------- usize arithmetic
\* A usize value is kept in two limbs, hi * 2^16 + lo, so that products of a
\* u32 coordinate and a u8 width are computed exactly.
Limb == 2 ^ 16

ToUsize(n) == [hi |-> n \div Limb, lo |-> n % Limb]

\* Whether the exact value v fits the target's usize (a 64-bit usize holds
\* every value these operations can produce from u32 and u8 operands).
Fits(t, v) == t.usizeBits = 64 \/ v.hi < 2 ^ (t.usizeBits - 16)

\* The result on the target of an operation whose exact value is v.
Narrow(t, v) ==
    IF Fits(t, v) THEN [panic |-> FALSE, val |-> v]
    ELSE IF t.overflowChecks THEN [panic |-> TRUE, val |-> v]
    ELSE [panic |-> FALSE,
          val |-> [hi |-> v.hi % (2 ^ (t.usizeBits - 16)), lo |-> v.lo]]

\* a / 8 on usize
UsizeDiv8(a) ==
    [hi |-> a.hi \div 8, lo |-> ((a.hi % 8) * Limb + a.lo) \div 8]

\* a * w on usize, w a u8 widened to usize
UsizeMul(t, a, w) ==
    LET low == a.lo * w
        high == a.hi * w + low \div Limb
    IN Narrow(t, [hi |-> high, lo |-> low % Limb])

\* a + b on usize
UsizeAdd(t, a, b) ==
    LET low == a.lo + b.lo
        high == a.hi + b.hi + low \div Limb
    IN Narrow(t, [hi |-> high, lo |-> low % Limb])

UsizeLess(a, n) == a.hi = 0 /\ a.lo < n

\* ------------------------------------------------------------ u8 bit logic
RECURSIVE BitAnd(_, _, _)
BitAnd(a, b, n) ==
    IF n = 0 THEN 0
    ELSE (a % 2) * (b % 2) + 2 * BitAnd(a \div 2, b \div 2, n - 1)

RECURSIVE BitOr(_, _, _)
BitOr(a, b, n) ==
    IF n = 0 THEN 0
    ELSE (IF a % 2 = 1 \/ b % 2 = 1 THEN 1 ELSE 0)
         + 2 * BitOr(a \div 2, b \div 2, n - 1)

\* !b on u8
NotU8(b) == 255 - b

\* 1 << s on u8, 0 <= s <= 7
Shl1(s) == 2 ^ s

\* ----------------------------------------------------------------- buffer
\* self.buffer, a [u8; BUFFER_SIZE], is kept as the map from the indices of
\* its non-zero bytes to those bytes: an index outside the map's domain holds
\* zero. Two buffers are equal exactly when their maps are.

\* [0; BUFFER_SIZE]
Zeroed == [i \in {} |-> 0]

\* buf[i], for i < BUFFER_SIZE
Byte(buf, i) == IF i \in DOMAIN buf THEN buf[i] ELSE 0

\* buf[i] = b
Store(buf, i, b) ==
    [j \in (IF b = 0 THEN DOMAIN buf \ {i} ELSE DOMAIN buf \cup {i}) |->
        IF j = i THEN b ELSE buf[j]]

\* ------------------------------------------------------------- set_pixel
\* (major as usize) / 8 * display_width as usize + (minor as usize)
IndexExpr(t, major, display_width, minor) ==
    LET m == UsizeMul(t, UsizeDiv8(ToUsize(major)), display_width)
    IN IF m.panic THEN m ELSE UsizeAdd(t, m.val, ToUsize(minor))

\* The arm for Rotate0 | Rotate180 of the match that resolves idx: whether
\* set_pixel returns there, and the index otherwise.
idx_Rotate0_180(t, display_width, x, y) ==
    IF x >= display_width
    THEN [return |-> TRUE, panic |-> FALSE, val |-> ToUsize(0)]
    ELSE [return |-> FALSE] @@ IndexExpr(t, y, display_width, x)

\* The arm for Rotate90 | Rotate270.
idx_Rotate90_270(t, display_width, x, y) ==
    IF y >= display_width
    THEN [return |-> TRUE, panic |-> FALSE, val |-> ToUsize(0)]
    ELSE [return |-> FALSE] @@ IndexExpr(t, x, display_width, y)

\* The bit of the second match: 1 << (y % 8), or 1 << (x % 8).
bit_Rotate0_180(x, y) == Shl1(y % 8)

\* Mutant: the bit of the other arm.
bit_Rotate90_270_Untransposed(x, y) == Shl1(y % 8)

bit_Rotate90_270(x, y) == Shl1(x % 8)

\* Mutant: the byte is assigned, not masked.
WriteBit_Assigned(byte, bit, value) == IF value = 0 THEN 0 ELSE bit

\* if value == 0 { *byte &= !bit } else { *byte |= bit }
WriteBit(byte, bit, value) ==
    IF value = 0 THEN BitAnd(byte, NotU8(bit), 8) ELSE BitOr(byte, bit, 8)

\* set_pixel(x, y, value) on buffer buf: the buffer it leaves and whether it
\* panicked. The second match indexes the buffer with the expression the
\* first one resolved idx from, so its index is idx.
set_pixel(buf, t, sz, rot, x, y, value) ==
    LET display_width == dimensions(sz)[1]
        idx == IF rot \in {"Rotate0", "Rotate180"}
               THEN idx_Rotate0_180(t, display_width, x, y)
               ELSE idx_Rotate90_270(t, display_width, x, y)
        bit == IF rot \in {"Rotate0", "Rotate180"}
               THEN bit_Rotate0_180(x, y)
               ELSE bit_Rotate90_270(x, y)
    IN IF idx.return THEN [panic |-> FALSE, buffer |-> buf]
       ELSE IF idx.panic THEN [panic |-> TRUE, buffer |-> buf]
       ELSE IF ~UsizeLess(idx.val, BUFFER_SIZE)
            THEN [panic |-> FALSE, buffer |-> buf]
       ELSE [panic |-> FALSE,
             buffer |-> Store(buf, idx.val.lo,
                              WriteBit(Byte(buf, idx.val.lo), bit, value))]

\* ---------------------------------------------------------------- results
\* () of a call that returns nothing, Ok(()), Err(e), and a panic. wrap names
\* the variant of crate::Error an error was put in.
Unit == [tag |-> "Unit", wrap |-> "none", err |-> "none"]
Ok == [tag |-> "Ok", wrap |-> "none", err |-> "none"]
Err(e) == [tag |-> "Err", wrap |-> "none", err |-> e]
Panic == [tag |-> "Panic", wrap |-> "none", err |-> "none"]

\* r.map_err(Error::Pin)
MapErrPin(r) == IF r.tag = "Err" THEN [r EXCEPT !.wrap = "Pin"] ELSE r

\* What a call on the transport, or on the reset pin, can answer.
BusResults == {Ok} \cup {Err(e) : e \in TransportErrors}
PinResults == {Ok} \cup {Err(e) : e \in PinErrors}

\* One call on a collaborator, as the last operation made it.
Event(cmd, args, data, res) ==
    [cmd |-> cmd, args |-> args, data |-> data, res |-> res]

\* ------------------------------------------------------------------ clear
\* Mutant: only the bytes of a 128x64 frame are zeroed.
clear_Frame128x64(buf) ==
    [j \in {i \in DOMAIN buf : i >= (128 * 64) \div 8} |-> buf[j]]

\* self.buffer = [0; BUFFER_SIZE]
clear(buf) == Zeroed

\* ------------------------------------------------------------------ flush
\* display_width + column_offset on u8
AddU8(t, a, b) ==
    IF a + b < 256 THEN [panic |-> FALSE, val |-> a + b]
    ELSE IF t.overflowChecks THEN [panic |-> TRUE, val |-> 0]
    ELSE [panic |-> FALSE, val |-> (a + b) % 256]

\* &buffer[..length]: a byte slice is kept like the buffer, as its length and
\* the map from the indices of its non-zero bytes to those bytes.
Slice(buf, length) ==
    [len |-> length, bytes |-> [i \in {j \in DOMAIN buf : j < length} |-> buf[i]]]

\* No bytes: the data of a call that carries none.
NoData == [len |-> 0, bytes |-> Zeroed]

\* Mutant: the whole buffer is sent.
flush_WholeBuffer(buf, t, sz, r1, r2) ==
    LET right == AddU8(t, sz.width, sz.offset)
        window == Event("set_draw_area",
                        <<sz.offset, 0, right.val, sz.height>>, NoData, r1)
    IN IF right.panic THEN [ret |-> Panic, io |-> <<>>]
       ELSE IF r1.tag = "Err" THEN [ret |-> r1, io |-> <<window>>]
       ELSE [ret |-> r2,
             io |-> <<window, Event("draw", <<>>, Slice(buf, BUFFER_SIZE), r2)>>]

\* Mutant: the result of set_draw_area is dropped, not propagated.
flush_WindowErrorDropped(buf, t, sz, r1, r2) ==
    LET right == AddU8(t, sz.width, sz.offset)
        window == Event("set_draw_area",
                        <<sz.offset, 0, right.val, sz.height>>, NoData, r1)
        length == (sz.width * sz.height) \div 8
    IN IF right.panic THEN [ret |-> Panic, io |-> <<>>]
       ELSE IF length > BUFFER_SIZE THEN [ret |-> Panic, io |-> <<window>>]
       ELSE [ret |-> r2,
             io |-> <<window, Event("draw", <<>>, Slice(buf, length), r2)>>]

\* Mutant: the window and the length come from the rotated dimensions.
flush_Rotated(buf, t, sz, r1, r2) ==
    LET turned == rotation \in {"Rotate90", "Rotate270"}
        width == IF turned THEN sz.height ELSE sz.width
        height == IF turned THEN sz.width ELSE sz.height
        right == AddU8(t, width, sz.offset)
        window == Event("set_draw_area",
                        <<sz.offset, 0, right.val, height>>, NoData, r1)
        length == (width * height) \div 8
    IN IF right.panic THEN [ret |-> Panic, io |-> <<>>]
       ELSE IF r1.tag = "Err" THEN [ret |-> r1, io |-> <<window>>]
       ELSE IF length > BUFFER_SIZE THEN [ret |-> Panic, io |-> <<window>>]
       ELSE [ret |-> r2,
             io |-> <<window, Event("draw", <<>>, Slice(buf, length), r2)>>]

\* flush() when the transport answers r1 to set_draw_area and r2 to draw:
\* the value returned and the calls made on the transport.
flush(buf, t, sz, r1, r2) ==
    LET display_width == dimensions(sz)[1]
        display_height == dimensions(sz)[2]
        right == AddU8(t, display_width, column_offset(sz))
        window == Event("set_draw_area",
                        <<column_offset(sz), 0, right.val, display_height>>,
                        NoData, r1)
        length == (display_width * display_height) \div 8
    IN IF right.panic THEN [ret |-> Panic, io |-> <<>>]
       ELSE IF r1.tag = "Err" THEN [ret |-> r1, io |-> <<window>>]
       ELSE IF length > BUFFER_SIZE THEN [ret |-> Panic, io |-> <<window>>]
       ELSE [ret |-> r2,
             io |-> <<window, Event("draw", <<>>, Slice(buf, length), r2)>>]

\* ------------------------------------------------------------------ reset
\* Mutant: a failed pin call does not end the sequence.
reset_NoEarlyReturn(r1, r2, r3) ==
    [ret |-> MapErrPin(r3),
     io |-> << Event("set_high", <<>>, NoData, r1),
               Event("delay_ms", <<1>>, NoData, Unit),
               Event("set_low", <<>>, NoData, r2),
               Event("delay_ms", <<10>>, NoData, Unit),
               Event("set_high", <<>>, NoData, r3) >>]

\* reset() when the pin answers r1, r2, r3 to set_high, set_low, set_high.
reset(r1, r2, r3) ==
    LET high1 == Event("set_high", <<>>, NoData, r1)
        wait1 == Event("delay_ms", <<1>>, NoData, Unit)
        low == Event("set_low", <<>>, NoData, r2)
        wait10 == Event("delay_ms", <<10>>, NoData, Unit)
        high2 == Event("set_high", <<>>, NoData, r3)
    IN IF r1.tag = "Err" THEN [ret |-> MapErrPin(r1), io |-> <<high1>>]
       ELSE IF r2.tag = "Err"
            THEN [ret |-> MapErrPin(r2), io |-> <<high1, wait1, low>>]
       ELSE [ret |-> MapErrPin(r3),
             io |-> <<high1, wait1, low, wait10, high2>>]

\* ------------------------------------------------------------------- draw
\* RawU1::from(color).into_inner()
RawU1(color) == IF color = "On" THEN 1 ELSE 0

\* draw(item_pixels): the pixels left of or above the origin are filtered
\* out, the others go through set_pixel in order.
RECURSIVE draw(_, _, _, _, _)
draw(buf, t, sz, rot, pixels) ==
    IF pixels = <<>> THEN [panic |-> FALSE, buffer |-> buf]
    ELSE LET p == Head(pixels)
         IN IF p.x >= 0 /\ p.y >= 0
            THEN LET r == set_pixel(buf, t, sz, rot, p.x, p.y, RawU1(p.color))
                 IN IF r.panic THEN r
                    ELSE draw(r.buffer, t, sz, rot, Tail(pixels))
            ELSE draw(buf, t, sz, rot, Tail(pixels))

\* ----------------------------------------------------------------- inputs
\* (x, y) arguments of set_pixel: u32 coordinates
PixelCoords ==
    { <<0, 0>>, <<5, 3>>, <<3, 5>>, <<5, 4>>, <<4, 5>>,
      <<127, 63>>, <<63, 127>>, <<131, 63>>, <<63, 131>>,
      <<0, 32>>, <<32, 0>>, <<0, 64>>, <<64, 0>>,
      <<128, 0>>, <<0, 128>>, <<132, 0>>, <<0, 132>>,
      <<0, 2 ^ 28>>, <<2 ^ 28, 0>> }

\* value arguments of set_pixel: u8
PixelValues == {0, 1}

\* (x, y, value) arguments of set_pixel: every coordinate pair off and on,
\* and a pixel and its transpose with another non-zero value
PixelArgs ==
    {<<c[1], c[2], v>> : c \in PixelCoords, v \in PixelValues}
        \cup {<<5, 3, 255>>, <<3, 5, 255>>}

\* Pixel(point, color) items of a draw() iterator: i32 coordinates
Pixel(x, y, color) == [x |-> x, y |-> y, color |-> color]

\* The iterators handed to draw()
DrawArgs ==
    { <<>>,
      <<Pixel(-1, 3, "On")>>,
      <<Pixel(5, -1, "On"), Pixel(-1, -1, "Off")>>,
      <<Pixel(5, 3, "On"), Pixel(-1, 3, "On"), Pixel(5, 4, "On")>>,
      <<Pixel(5, 3, "On"), Pixel(5, 3, "Off")>>,
      <<Pixel(3, 5, "Off"), Pixel(127, 63, "On")>>,
      <<Pixel(0, 64, "On")>>,
      <<Pixel(5, 3, "On"), Pixel(0, 2 ^ 28, "On"), Pixel(5, 4, "On")>> }

\* ---------------------------------------------------------------- actions
\* GraphicsMode::new(properties): the buffer zeroed; size and rotation are
\* those of the properties handed in.
Init ==
    /\ size \in DisplaySizes
    /\ target \in Targets
    /\ rotation \in Rotations
    /\ buffer = Zeroed
    /\ call = [op |-> "new", args |-> <<>>, ret |-> Unit, io |-> <<>>]
    /\ pre = Snapshot
    /\ nOps = 0

\* No call is under way: the mode was just built, or its caller has taken
\* the last call's result.
Idle == call.op \in {"new", "returned"}

\* The next call can be made.
Running == Idle /\ nOps < MaxOps

\* What every call does to the bookkeeping.
Called == pre' = Snapshot /\ nOps' = nOps + 1

SetPixel ==
    /\ Running
    /\ \E a \in PixelArgs :
         LET r == set_pixel(buffer, target, size, rotation, a[1], a[2], a[3])
         IN /\ buffer' = r.buffer
            /\ call' = [op |-> "set_pixel", args |-> a,
                        ret |-> IF r.panic THEN Panic ELSE Unit, io |-> <<>>]
    /\ Called
    /\ UNCHANGED <<size, target, rotation>>

Draw ==
    /\ Running
    /\ \E pixels \in DrawArgs :
         LET r == draw(buffer, target, size, rotation, pixels)
         IN /\ buffer' = r.buffer
            /\ call' = [op |-> "draw", args |-> pixels,
                        ret |-> IF r.panic THEN Panic ELSE Unit, io |-> <<>>]
    /\ Called
    /\ UNCHANGED <<size, target, rotation>>

Clear ==
    /\ Running
    /\ buffer' = clear(buffer)
    /\ call' = [op |-> "clear", args |-> <<>>, ret |-> Unit, io |-> <<>>]
    /\ Called
    /\ UNCHANGED <<size, target, rotation>>

\* The answers of a collaborator to up to three calls in a row: the calls
\* after a failed one are not made, so they have no answer to choose.
Answers(results) ==
    { a \in results \X results \X results :
        /\ a[1].tag = "Err" => a[2] = Ok /\ a[3] = Ok
        /\ a[2].tag = "Err" => a[3] = Ok }

Reset ==
    /\ Running
    /\ \E a \in Answers(PinResults) :
         LET r == reset(a[1], a[2], a[3])
         IN call' = [op |-> "reset", args |-> <<>>, ret |-> r.ret, io |-> r.io]
    /\ Called
    /\ UNCHANGED <<size, target, rotation, buffer>>

Flush ==
    /\ Running
    /\ \E a \in Answers(BusResults) :
         /\ a[3] = Ok
         /\ LET r == flush(buffer, target, size, a[1], a[2])
            IN call' = [op |-> "flush", args |-> <<>>, ret |-> r.ret,
                        io |-> r.io]
    /\ Called
    /\ UNCHANGED <<size, target, rotation, buffer>>

\* properties.set_rotation(rot) answering r: the rotations it can leave. A
\* failed call may or may not have stored the new rotation before the bus
\* failed.
properties_set_rotation(old, rot, r) ==
    IF r.tag = "Ok" THEN {rot} ELSE {old, rot}

SetRotation ==
    /\ Running
    /\ \E rot \in Rotations, r \in BusResults :
         /\ rotation' \in properties_set_rotation(rotation, rot, r)
         /\ call' = [op |-> "set_rotation", args |-> <<rot>>, ret |-> r,
                     io |-> <<Event("set_rotation", <<rot>>, NoData, r)>>]
    /\ Called
    /\ UNCHANGED <<size, target, buffer>>

\* The caller takes the result of the last call and goes on, unless the call
\* panicked: a panic ends the program.
Return ==
    /\ ~Idle
    /\ call.ret.tag # "Panic"
    /\ nOps < MaxOps
    /\ call' = [op |-> "returned", args |-> <<>>, ret |-> Unit, io |-> <<>>]
    /\ pre' = Snapshot
    /\ UNCHANGED <<size, target, rotation, buffer, nOps>>

Next ==
    SetPixel \/ Draw \/ Clear \/ Reset \/ Flush \/ SetRotation \/ Return

Spec == Init /\ [][Next]_vars

\* ------------------------------------------------------------- properties
\* get_dimensions(): the size adjusted for the rotation, width and height
\* swapped under Rotate90 and Rotate270.
get_dimensions(sz, rot) ==
    IF rot \in {"Rotate0", "Rotate180"}
    THEN <<sz.width, sz.height>>
    ELSE <<sz.height, sz.width>>

\* (x, y) lies inside the rotation-adjusted bounds.
InBounds(sz, rot, x, y) ==
    /\ 0 <= x /\ x < get_dimensions(sz, rot)[1]
    /\ 0 <= y /\ y < get_dimensions(sz, rot)[2]

\* The byte and the bit a pixel is documented to live in.
PixelByte(sz, rot, x, y) ==
    IF rot \in {"Rotate0", "Rotate180"}
    THEN (y \div 8) * sz.width + x
    ELSE (x \div 8) * sz.width + y

PixelBit(rot, x, y) ==
    IF rot \in {"Rotate0", "Rotate180"} THEN y % 8 ELSE x % 8

TestBit(byte, k) == (byte \div (2 ^ k)) % 2 = 1

\* The two buffers hold the same byte at every index but those in except.
SameBytes(a, b, except) ==
    \A i \in (DOMAIN a \cup DOMAIN b) \ except : Byte(a, i) = Byte(b, i)

\* The bytes flush() transmits for size sz.
FlushLength(sz) == (sz.width * sz.height) \div 8

\* The leading n bytes of buf, as a byte slice.
Leading(buf, n) ==
    [len |-> n, bytes |-> [i \in DOMAIN buf \cap (0 .. n - 1) |-> buf[i]]]

\* C1: a set_pixel(x, y, v) inside the rotation-adjusted bounds returns
\* normally, leaves bit (y mod 8) of byte (y/8)*width + x (0 and 180 degrees)
\* or bit (x mod 8) of byte (x/8)*width + y (90 and 270 degrees) set when
\* v != 0 and cleared when v = 0, and changes no other bit of the buffer; on
\* a zeroed 128x64 buffer at 0 degrees set_pixel(5, 3, 1) leaves byte 5 = 0x08
\* and nothing else.
C1_SetPixelInBounds ==
    (call.op = "set_pixel"
        /\ InBounds(size, rotation, call.args[1], call.args[2]))
    => LET x == call.args[1]
           y == call.args[2]
           v == call.args[3]
           i == PixelByte(size, rotation, x, y)
           k == PixelBit(rotation, x, y)
       IN /\ call.ret = Unit
          /\ TestBit(Byte(buffer, i), k) = (v # 0)
          /\ \A j \in (0 .. 7) \ {k} :
                TestBit(Byte(buffer, i), j) = TestBit(Byte(pre.buffer, i), j)
          /\ SameBytes(buffer, pre.buffer, {i})
          /\ (/\ size.width = 128 /\ size.height = 64
              /\ rotation = "Rotate0"
              /\ <<x, y, v>> = <<5, 3, 1>>
              /\ pre.buffer = Zeroed)
             => (DOMAIN buffer = {5} /\ buffer[5] = 8)

\* A set bit is cleared again: set_pixel(5, 3, 0) on a 128x64 buffer whose
\* only set bit is that pixel's.
C1_Witness ==
    /\ call.op = "set_pixel"
    /\ call.args = <<5, 3, 0>>
    /\ size.width = 128 /\ size.height = 64
    /\ rotation = "Rotate0"
    /\ DOMAIN pre.buffer = {5} /\ pre.buffer[5] = 8
    /\ buffer = Zeroed

\* Every pixel of a draw() argument is left of or above the origin, or
\* outside the rotation-adjusted bounds.
AllOutside(sz, rot, pixels) ==
    \A n \in 1 .. Len(pixels) :
        ~InBounds(sz, rot, pixels[n].x, pixels[n].y)

\* C2: a set_pixel whose (x, y) lies outside the rotation-adjusted bounds,
\* and a draw whose pixels all do or have a negative coordinate, leaves every
\* byte of the buffer as it was.
C2_OutOfBoundsNoOp ==
    /\ (call.op = "set_pixel"
            /\ ~InBounds(size, rotation, call.args[1], call.args[2]))
       => buffer = pre.buffer
    /\ (call.op = "draw" /\ AllOutside(size, rotation, call.args))
       => buffer = pre.buffer

\* C3: a flush() that returns Ok has made exactly two calls on the
\* transport, in this order: set_draw_area((offset, 0), (offset + width,
\* height)), then draw with the width*height/8 leading bytes of the buffer.
C3_FlushWindowThenData ==
    (call.op = "flush" /\ call.ret = Ok)
    => call.io =
         << Event("set_draw_area",
                  <<size.offset, 0, size.offset + size.width, size.height>>,
                  NoData, Ok),
            Event("draw", <<>>, Leading(pre.buffer, FlushLength(size)), Ok) >>

C3_Witness ==
    /\ call.op = "flush"
    /\ call.ret = Ok
    /\ pre.buffer # Zeroed
    /\ \E i \in DOMAIN pre.buffer : i < FlushLength(size)

\* Some call of the last operation on a collaborator failed.
SomeFailed == \E n \in 1 .. Len(call.io) : call.io[n].res.tag = "Err"

\* C4: a flush() in which a transport call fails returns that call's error
\* as it is and makes no call after it (so no data is written when
\* set_draw_area fails), calls set_draw_area and draw at most once each, and
\* leaves the buffer as it was.
C4_FlushErrors ==
    (call.op = "flush" /\ SomeFailed)
    => LET last == call.io[Len(call.io)]
       IN /\ call.ret = last.res
          /\ call.ret.tag = "Err"
          /\ \A n \in 1 .. Len(call.io) - 1 : call.io[n].res = Ok
          /\ Len(call.io) <= 2
          /\ call.io[1].cmd = "set_draw_area"
          /\ Len(call.io) = 2 => call.io[2].cmd = "draw"
          /\ buffer = pre.buffer

\* set_draw_area fails on a buffer that holds pixels.
C4_Witness ==
    /\ call.op = "flush"
    /\ Len(call.io) = 1
    /\ call.io[1].res = Err("Timeout")
    /\ buffer # Zeroed

\* C5: after clear() every byte of the buffer is zero, no call was made on
\* the transport, and rotation and size are as before.
C5_ClearZeroes ==
    call.op = "clear"
    => /\ buffer = Zeroed
       /\ \A i \in 0 .. BUFFER_SIZE - 1 : Byte(buffer, i) = 0
       /\ call.io = <<>>
       /\ call.ret = Unit
       /\ rotation = pre.rotation
       /\ size = pre.size

C5_Witness ==
    /\ call.op = "clear"
    /\ pre.buffer # Zeroed
    /\ pre.rotation # "Rotate0"

\* The rotation paired with rot in C6: 0 with 90 degrees, 180 with 270.
Counterpart(rot) ==
    CASE rot = "Rotate0" -> "Rotate90"
      [] rot = "Rotate90" -> "Rotate0"
      [] rot = "Rotate180" -> "Rotate270"
      [] rot = "Rotate270" -> "Rotate180"

\* C6: what set_pixel(a, b, v) did under the current rotation is what
\* set_pixel(b, a, v) does to the same buffer under the paired rotation (0
\* with 90 degrees, 180 with 270): the same buffer results, no-ops included.
C6_TransposedEquivalence ==
    call.op = "set_pixel"
    => LET other == set_pixel(pre.buffer, target, size,
                              Counterpart(pre.rotation),
                              call.args[2], call.args[1], call.args[3])
       IN /\ buffer = other.buffer
          /\ (call.ret.tag = "Panic") = other.panic

C6_Witness ==
    /\ call.op = "set_pixel"
    /\ rotation = "Rotate270"
    /\ call.args[1] # call.args[2]
    /\ buffer # pre.buffer

\* C7: set_rotation, failed or not, leaves every byte of the buffer as it
\* was and no byte outside its 1056; under every rotation flush() programs
\* the window of the unrotated size and sends width*height/8 bytes.
C7_RotationLeavesBufferAndFlush ==
    /\ call.op = "set_rotation"
       => /\ buffer = pre.buffer
          /\ DOMAIN buffer \subseteq 0 .. BUFFER_SIZE - 1
          /\ BUFFER_SIZE = 1056
    /\ call.op = "flush"
       => /\ call.io[1].args =
               <<size.offset, 0, size.offset + size.width, size.height>>
          /\ Len(call.io) = 2
             => call.io[2].data.len = (size.width * size.height) \div 8

\* A failed set_rotation that changed the rotation, on a buffer holding
\* pixels.
C7_Witness ==
    /\ call.op = "set_rotation"
    /\ call.ret.tag = "Err"
    /\ rotation # pre.rotation
    /\ buffer # Zeroed

\* The pin and delay calls of a complete reset().
ResetSequence ==
    << [cmd |-> "set_high", args |-> <<>>],
       [cmd |-> "delay_ms", args |-> <<1>>],
       [cmd |-> "set_low", args |-> <<>>],
       [cmd |-> "delay_ms", args |-> <<10>>],
       [cmd |-> "set_high", args |-> <<>>] >>

\* C8: reset() makes the calls set_high, delay 1 ms, set_low, delay 10 ms,
\* set_high in this order and stops at the first pin call that fails,
\* returning that error as Error::Pin; when none fails it makes all five and
\* returns Ok, the pin last driven high. The buffer is as before.
C8_ResetSequence ==
    call.op = "reset"
    => LET n == Len(call.io)
       IN /\ n \in 1 .. 5
          /\ \A i \in 1 .. n :
                /\ call.io[i].cmd = ResetSequence[i].cmd
                /\ call.io[i].args = ResetSequence[i].args
          /\ \A i \in 1 .. n - 1 : call.io[i].res.tag # "Err"
          /\ IF call.io[n].res.tag = "Err"
             THEN call.ret = [tag |-> "Err", wrap |-> "Pin",
                              err |-> call.io[n].res.err]
             ELSE n = 5 /\ call.ret = Ok
          /\ buffer = pre.buffer

\* set_low fails: the second delay and the last set_high are not made.
C8_Witness ==
    /\ call.op = "reset"
    /\ Len(call.io) = 3
    /\ call.ret.tag = "Err"
    /\ buffer # Zeroed

\* C9: set_pixel, draw and clear return normally and write no byte outside
\* the buffer.
C9_PixelOpsNeverFail ==
    call.op \in {"set_pixel", "draw", "clear"}
    => /\ call.ret.tag # "Panic"
       /\ DOMAIN buffer \subseteq 0 .. BUFFER_SIZE - 1

\* C10: a set_pixel whose (x, y) lies outside the rotation-adjusted bounds
\* changes none of the width*height/8 leading bytes that flush() transmits.
C10_OutOfBoundsKeepsFlushedBytes ==
    (call.op = "set_pixel"
        /\ ~InBounds(size, rotation, call.args[1], call.args[2]))
    => \A i \in DOMAIN buffer \cup DOMAIN pre.buffer :
          i < FlushLength(size) => Byte(buffer, i) = Byte(pre.buffer, i)
====
